---- MODULE Spec2Model ----
(***************************************************************************)
(* Appointment booking service (src/app.py): one SQLite table `timeslots`  *)
(* behind five FastAPI handlers.  Every handler opens its own connection.  *)
(* A handler is modelled statement by statement (SELECT, INSERT/UPDATE,    *)
(* commit), so that calls served by different worker processes on the same *)
(* database file can interleave.  SQLite's locking is modelled by `lock`   *)
(* (the connection holding the RESERVED lock, i.e. an open write           *)
(* transaction) and `wdb` (that connection's uncommitted view).            *)
(***************************************************************************)
EXTENDS Integers, Sequences, FiniteSets, TLC

VARIABLES db, wdb, lock, pc, req, loc, resp, conn, nreq, before, last

vars == <<db, wdb, lock, pc, req, loc, resp, conn, nreq, before, last>>

----------------------------------------------------------------------------
(* Bounds of the model *)

MaxWorkers == 2
MaxReq == 2
MaxSeqReq == 3
MaxGenReq == 2
MaxSlotId == 1

Workers == 1..MaxWorkers

(* Program constants: the defaults of generate_timeslots *)
DefaultStartHour == 9
DefaultEndHour == 17
DefaultSlotDuration == 60

----------------------------------------------------------------------------
(* Values *)

NULL == <<>>
Some(v) == <<v>>

NoDate == <<>>
ValidDates == {<<2024, 6, 1>>, <<2024, 6, 2>>}
BadDates == {<<2024, 2, 30>>}
(* The dates the interleaved calls use, and those the calls made one after
   another use *)
OneDate == {<<2024, 6, 1>>}

Customers ==
    { [name |-> "Alice", email |-> "a@x.com", phone |-> "555-1"],
      [name |-> "Bob", email |-> "b@x.com", phone |-> "555-2"] }
NoCust == [name |-> "", email |-> "", phone |-> ""]

SlotIdInputs == 0..MaxSlotId

----------------------------------------------------------------------------
(* datetime helpers *)

IsLeap(y) == (y % 4 = 0 /\ y % 100 # 0) \/ y % 400 = 0

DaysInMonth(y, m) ==
    IF m = 2 THEN (IF IsLeap(y) THEN 29 ELSE 28)
    ELSE IF m \in {4, 6, 9, 11} THEN 30 ELSE 31

(* datetime.strptime(date, '%Y-%m-%d') succeeds *)
StrptimeOk(date) ==
    /\ Len(date) = 3
    /\ date[1] \in 1..9999
    /\ date[2] \in 1..12
    /\ date[3] \in 1..DaysInMonth(date[1], date[2])

(* .replace(hour=h, minute=0) succeeds *)
ReplaceHourOk(h) == h \in 0..23

(* A datetime on the request's date is the number of minutes since that
   date's midnight; strftime('%H:%M') keeps the time of day only. *)
Strftime(t) == <<(t \div 60) % 24, t % 60>>

(* Comparison of two 'HH:MM' strings (zero padded, so lexicographic) *)
TimeLess(a, b) == a[1] < b[1] \/ (a[1] = b[1] /\ a[2] < b[2])

----------------------------------------------------------------------------
(* The table *)

NewRow(id, date, st, et) ==
    [id |-> id, date |-> date, start_time |-> st, end_time |-> et,
     is_booked |-> 0,
     customer_name |-> NULL, customer_email |-> NULL, customer_phone |-> NULL]

(* Mutant of InsertSlot: regenerating a date also frees the date's slots *)
InsertSlotFreesDate(t, date, st, et) ==
    Append([i \in 1..Len(t) |->
               IF t[i].date = date
               THEN NewRow(t[i].id, t[i].date, t[i].start_time, t[i].end_time)
               ELSE t[i]],
           NewRow(Len(t) + 1, date, st, et))

(* INSERT INTO timeslots (date, start_time, end_time, is_booked) VALUES (?, ?, ?, 0) *)
InsertSlot(t, date, st, et) == Append(t, NewRow(Len(t) + 1, date, st, et))

(* Mutant of SelectExisting: the check compares the wrong time column *)
SelectExistingByEnd(t, date, st) ==
    \E i \in 1..Len(t) : t[i].date = date /\ t[i].end_time = st

(* SELECT * FROM timeslots WHERE date = ? AND start_time = ? *)
SelectExisting(t, date, st) ==
    \E i \in 1..Len(t) : t[i].date = date /\ t[i].start_time = st

(* Mutant of SelectSlot: the query does not filter by is_booked *)
SelectSlotAnyState(t, id, booked) ==
    \E i \in 1..Len(t) : t[i].id = id

(* SELECT * FROM timeslots WHERE id = ? AND is_booked = ? *)
SelectSlot(t, id, booked) ==
    \E i \in 1..Len(t) : t[i].id = id /\ t[i].is_booked = booked

(* Mutant of UpdateBook: the UPDATE leaves customer_phone out *)
UpdateBookNoPhone(t, id, c) ==
    [i \in 1..Len(t) |->
        IF t[i].id = id
        THEN [t[i] EXCEPT !.is_booked = 1,
                          !.customer_name = Some(c.name),
                          !.customer_email = Some(c.email)]
        ELSE t[i]]

(* Mutant of UpdateBook: the UPDATE has no WHERE clause once the slot was
   found *)
UpdateBookAll(t, id, c) ==
    [i \in 1..Len(t) |->
        [t[i] EXCEPT !.is_booked = 1,
                     !.customer_name = Some(c.name),
                     !.customer_email = Some(c.email),
                     !.customer_phone = Some(c.phone)]]

(* UPDATE timeslots SET is_booked = 1, customer_* = ? WHERE id = ? *)
UpdateBook(t, id, c) ==
    [i \in 1..Len(t) |->
        IF t[i].id = id
        THEN [t[i] EXCEPT !.is_booked = 1,
                          !.customer_name = Some(c.name),
                          !.customer_email = Some(c.email),
                          !.customer_phone = Some(c.phone)]
        ELSE t[i]]

(* Mutant of UpdateCancel: the UPDATE does not clear customer_name *)
UpdateCancelKeepsName(t, id) ==
    [i \in 1..Len(t) |->
        IF t[i].id = id
        THEN [t[i] EXCEPT !.is_booked = 0,
                          !.customer_email = NULL,
                          !.customer_phone = NULL]
        ELSE t[i]]

(* UPDATE timeslots SET is_booked = 0, customer_* = NULL WHERE id = ? *)
UpdateCancel(t, id) ==
    [i \in 1..Len(t) |->
        IF t[i].id = id
        THEN [t[i] EXCEPT !.is_booked = 0,
                          !.customer_name = NULL,
                          !.customer_email = NULL,
                          !.customer_phone = NULL]
        ELSE t[i]]

(* Mutant of SelectAvailable: the query filters by date only *)
SelectAvailableAnyState(t, date) ==
    SelectSeq(t, LAMBDA r : r.date = date)

(* SELECT * FROM timeslots WHERE date = ? AND is_booked = 0 *)
SelectAvailable(t, date) ==
    SelectSeq(t, LAMBDA r : r.date = date /\ r.is_booked = 0)

(* Mutant of SelectBooked: the date filter is dropped *)
SelectBookedIgnoresDate(t, date) ==
    SelectSeq(t, LAMBDA r : r.is_booked = 1)

(* SELECT * FROM timeslots WHERE is_booked = 1 [AND date = ?] *)
SelectBooked(t, date) ==
    IF date # NoDate
    THEN SelectSeq(t, LAMBDA r : r.is_booked = 1 /\ r.date = date)
    ELSE SelectSeq(t, LAMBDA r : r.is_booked = 1)

(* generate_timeslots run from `current` to `end` with no other call in
   between: the table after its loop *)
RECURSIVE GenerateLoop(_, _, _, _, _)
GenerateLoop(t, date, current, end, dur) ==
    IF current < end
    THEN GenerateLoop(
            IF SelectExisting(t, date, Strftime(current))
            THEN t
            ELSE InsertSlot(t, date, Strftime(current), Strftime(current + dur)),
            date, current + dur, end, dur)
    ELSE t

(* What connection c reads: its own uncommitted writes inside its write
   transaction, the committed table otherwise. *)
View(c) == IF lock = c THEN wdb ELSE db

----------------------------------------------------------------------------
(* Requests and responses *)

Req(op, date, sh, eh, dur, id, cust) ==
    [op |-> op, date |-> date, start_hour |-> sh, end_hour |-> eh,
     slot_duration |-> dur, slot_id |-> id, cust |-> cust]

NoReq == Req("none", NoDate, 0, 0, 0, 0, NoCust)

(* POST /generate-timeslots: generate_timeslots(date) with its defaults *)
GenerateReqs(D) ==
    { Req("generate", d, DefaultStartHour, DefaultEndHour, DefaultSlotDuration,
          0, NoCust) : d \in {NoDate} \cup D \cup BadDates }
AvailableReqs(D) == { Req("available", d, 0, 0, 0, 0, NoCust) : d \in {NoDate} \cup D }
BookReqs == { Req("book", NoDate, 0, 0, 0, i, k) : i \in SlotIdInputs, k \in Customers }
CancelReqs == { Req("cancel", NoDate, 0, 0, 0, i, NoCust) : i \in SlotIdInputs }
BookedReqs(D) == { Req("booked", d, 0, 0, 0, 0, NoCust) : d \in {NoDate} \cup D }

(* The requests of the five endpoints, with dates drawn from D *)
HttpReqs(D) ==
    GenerateReqs(D) \cup AvailableReqs(D) \cup BookReqs \cup CancelReqs
        \cup BookedReqs(D)

(* Direct calls generate_timeslots(date, start_hour, end_hour, slot_duration)
   with start_hour < end_hour and slot_duration > 0 *)
StartHours == {9, 22}
EndHours == {17, 23}
Durations == {60, 90, 120}
DirectReqs ==
    { Req("generate_timeslots", d, sh, eh, dur, 0, NoCust) :
        d \in ValidDates,
        sh \in StartHours, eh \in EndHours, dur \in Durations }

FirstPc(op) ==
    CASE op = "generate" -> "gen_parse"
      [] op = "generate_timeslots" -> "gen_parse"
      [] op = "available" -> "avail_select"
      [] op = "book" -> "book_select"
      [] op = "cancel" -> "cancel_select"
      [] op = "booked" -> "booked_select"

NoLoc == [current |-> 0, end |-> 0, slot |-> FALSE]
NoResp == [status |-> 0, detail |-> "", body |-> <<>>]
Response(status, detail) == [status |-> status, detail |-> detail, body |-> <<>>]

(* str(e) of the HTTPException(400, detail) caught by `except Exception` *)
StrHTTPException(detail) ==
    CASE detail = "Slot is already booked or does not exist"
            -> "400: Slot is already booked or does not exist"
      [] detail = "No booked appointment found for this slot"
            -> "400: No booked appointment found for this slot"

----------------------------------------------------------------------------
(* Initial state.  init_db creates the table only if the database file does
   not hold it yet (CREATE TABLE IF NOT EXISTS), so the service starts on
   whatever an earlier run committed: here the empty table, the default grid
   of one date, or that grid with its first slot booked. *)
FirstDate == <<2024, 6, 1>>
FirstCustomer == [name |-> "Alice", email |-> "a@x.com", phone |-> "555-1"]
DefaultGrid ==
    GenerateLoop(<<>>, FirstDate, DefaultStartHour * 60, DefaultEndHour * 60,
                 DefaultSlotDuration)
InitTables == {<<>>, DefaultGrid, UpdateBook(DefaultGrid, 1, FirstCustomer)}

Init ==
    /\ db \in InitTables
    /\ wdb = db
    /\ lock = 0
    /\ pc = [c \in Workers |-> "idle"]
    /\ req = [c \in Workers |-> NoReq]
    /\ loc = [c \in Workers |-> NoLoc]
    /\ resp = [c \in Workers |-> NoResp]
    /\ conn = [c \in Workers |-> FALSE]
    /\ nreq = 0
    /\ before = db
    /\ last = [req |-> NoReq, status |-> 0, before |-> db]

(* A request r arrives and is served by the first idle worker, c; at most
   max requests are made *)
Start(c, r, max) ==
    /\ pc[c] = "idle"
    /\ \A d \in 1..(c - 1) : pc[d] # "idle"
    /\ nreq < max
    /\ nreq' = nreq + 1
    /\ pc' = [pc EXCEPT ![c] = FirstPc(r.op)]
    /\ req' = [req EXCEPT ![c] = r]
    /\ UNCHANGED <<db, wdb, lock, loc, resp, conn>>

(* The handler of worker c has returned or raised: the response goes out *)
Respond(c) ==
    /\ pc[c] = "done"
    /\ pc' = [pc EXCEPT ![c] = "idle"]
    /\ req' = [req EXCEPT ![c] = NoReq]
    /\ loc' = [loc EXCEPT ![c] = NoLoc]
    /\ resp' = [resp EXCEPT ![c] = NoResp]
    /\ conn' = [conn EXCEPT ![c] = FALSE]
    /\ UNCHANGED <<db, wdb, lock, nreq>>

(* c's handler ends with response r; closed tells whether conn.close() ran *)
Finish(c, r, closed) ==
    /\ pc' = [pc EXCEPT ![c] = "done"]
    /\ resp' = [resp EXCEPT ![c] = r]
    /\ conn' = [conn EXCEPT ![c] = ~closed]

(* c's write statement can take the RESERVED lock *)
CanWrite(c) == lock \in {0, c}

(* conn.commit() *)
Commit(c) ==
    IF lock = c
    THEN db' = wdb /\ wdb' = wdb /\ lock' = 0
    ELSE UNCHANGED <<db, wdb, lock>>

----------------------------------------------------------------------------
(* POST /generate-timeslots: create_timeslots and generate_timeslots *)

(* An exception leaving generate_timeslots: create_timeslots wraps it into a
   500; a direct caller of generate_timeslots sees the exception itself. *)
GenerateRaised(op, exc) ==
    IF op = "generate" THEN Response(500, exc) ELSE Response(0, exc)

GenerateReturned(op) ==
    IF op = "generate"
    THEN Response(201, "Timeslots generated successfully")
    ELSE Response(0, "returned")

(* `while current <= end`: the loop runs once too often *)
GenLoopPcInclusive(current, end) ==
    IF current <= end THEN "gen_select" ELSE "gen_commit"

(* `while current < end` *)
GenLoopPc(current, end) == IF current < end THEN "gen_select" ELSE "gen_commit"

(* `if not date`, get_db_connection(), the two strptime(...).replace(...) *)
CreateTimeslots(c) ==
    /\ pc[c] = "gen_parse"
    /\ LET r == req[c] IN
       IF r.op = "generate" /\ r.date = NoDate
       THEN /\ Finish(c, Response(400, "Date is required"), TRUE)
            /\ UNCHANGED loc
       ELSE IF ~(StrptimeOk(r.date) /\ ReplaceHourOk(r.start_hour)
                   /\ ReplaceHourOk(r.end_hour))
       THEN /\ Finish(c, GenerateRaised(r.op, "ValueError"), FALSE)
            /\ UNCHANGED loc
       ELSE /\ loc' = [loc EXCEPT ![c].current = r.start_hour * 60,
                                  ![c].end = r.end_hour * 60]
            /\ pc' = [pc EXCEPT ![c] = GenLoopPc(r.start_hour * 60, r.end_hour * 60)]
            /\ conn' = [conn EXCEPT ![c] = TRUE]
            /\ UNCHANGED resp
    /\ UNCHANGED <<db, wdb, lock, req, nreq, before, last>>

(* The existence check of one loop iteration *)
GenSelect(c) ==
    /\ pc[c] = "gen_select"
    /\ LET r == req[c]
           current == loc[c].current
           slot_end == current + r.slot_duration
       IN  IF SelectExisting(View(c), r.date, Strftime(current))
           THEN /\ loc' = [loc EXCEPT ![c].current = slot_end]
                /\ pc' = [pc EXCEPT ![c] = GenLoopPc(slot_end, loc[c].end)]
           ELSE /\ pc' = [pc EXCEPT ![c] = "gen_insert"]
                /\ UNCHANGED loc
    /\ UNCHANGED <<db, wdb, lock, req, resp, conn, nreq, before, last>>

(* The INSERT of one loop iteration; it opens the write transaction *)
GenInsert(c) ==
    /\ pc[c] = "gen_insert"
    /\ CanWrite(c)
    /\ LET r == req[c]
           current == loc[c].current
           slot_end == current + r.slot_duration
       IN  /\ wdb' = InsertSlot(View(c), r.date, Strftime(current), Strftime(slot_end))
           /\ lock' = c
           /\ loc' = [loc EXCEPT ![c].current = slot_end]
           /\ pc' = [pc EXCEPT ![c] = GenLoopPc(slot_end, loc[c].end)]
    /\ UNCHANGED <<db, req, resp, conn, nreq, before, last>>

(* The INSERT times out on another connection's write transaction:
   sqlite3.OperationalError('database is locked') *)
GenInsertBusy(c) ==
    /\ pc[c] = "gen_insert"
    /\ ~CanWrite(c)
    /\ Finish(c, GenerateRaised(req[c].op, "database is locked"), FALSE)
    /\ UNCHANGED <<db, wdb, lock, req, loc, nreq, before, last>>

(* conn.commit(); conn.close() *)
GenCommit(c) ==
    /\ pc[c] = "gen_commit"
    /\ Commit(c)
    /\ Finish(c, GenerateReturned(req[c].op), TRUE)
    /\ UNCHANGED <<req, loc, nreq, before, last>>

----------------------------------------------------------------------------
(* GET /available-timeslots *)

GetAvailableTimeslots(c) ==
    /\ pc[c] = "avail_select"
    /\ IF req[c].date = NoDate
       THEN Finish(c, Response(400, "Date is required"), TRUE)
       ELSE Finish(c, [status |-> 200, detail |-> "",
                       body |-> SelectAvailable(View(c), req[c].date)], TRUE)
    /\ UNCHANGED <<db, wdb, lock, req, loc, nreq, before, last>>

----------------------------------------------------------------------------
(* POST /book-appointment *)

(* The availability SELECT; `raise HTTPException(400)` sits inside the try
   block whose `except Exception` turns every exception into a 500. *)
BookSelect(c) ==
    /\ pc[c] = "book_select"
    /\ IF SelectSlot(View(c), req[c].slot_id, 0)
       THEN /\ pc' = [pc EXCEPT ![c] = "book_update"]
            /\ loc' = [loc EXCEPT ![c].slot = TRUE]
            /\ conn' = [conn EXCEPT ![c] = TRUE]
            /\ UNCHANGED resp
       ELSE /\ Finish(c, Response(500,
                   StrHTTPException("Slot is already booked or does not exist")), TRUE)
            /\ UNCHANGED loc
    /\ UNCHANGED <<db, wdb, lock, req, nreq, before, last>>

BookUpdate(c) ==
    /\ pc[c] = "book_update"
    /\ CanWrite(c)
    /\ wdb' = UpdateBook(View(c), req[c].slot_id, req[c].cust)
    /\ lock' = c
    /\ pc' = [pc EXCEPT ![c] = "book_commit"]
    /\ UNCHANGED <<db, req, loc, resp, conn, nreq, before, last>>

BookUpdateBusy(c) ==
    /\ pc[c] = "book_update"
    /\ ~CanWrite(c)
    /\ Finish(c, Response(500, "database is locked"), TRUE)
    /\ UNCHANGED <<db, wdb, lock, req, loc, nreq, before, last>>

BookCommit(c) ==
    /\ pc[c] = "book_commit"
    /\ Commit(c)
    /\ Finish(c, Response(201, "Appointment booked successfully"), TRUE)
    /\ UNCHANGED <<req, loc, nreq, before, last>>

----------------------------------------------------------------------------
(* POST /cancel-appointment *)

CancelSelect(c) ==
    /\ pc[c] = "cancel_select"
    /\ IF req[c].slot_id = 0
       THEN /\ Finish(c, Response(400, "Slot ID is required"), TRUE)
            /\ UNCHANGED loc
       ELSE IF SelectSlot(View(c), req[c].slot_id, 1)
       THEN /\ pc' = [pc EXCEPT ![c] = "cancel_update"]
            /\ loc' = [loc EXCEPT ![c].slot = TRUE]
            /\ conn' = [conn EXCEPT ![c] = TRUE]
            /\ UNCHANGED resp
       ELSE /\ Finish(c, Response(500,
                   StrHTTPException("No booked appointment found for this slot")), TRUE)
            /\ UNCHANGED loc
    /\ UNCHANGED <<db, wdb, lock, req, nreq, before, last>>

CancelUpdate(c) ==
    /\ pc[c] = "cancel_update"
    /\ CanWrite(c)
    /\ wdb' = UpdateCancel(View(c), req[c].slot_id)
    /\ lock' = c
    /\ pc' = [pc EXCEPT ![c] = "cancel_commit"]
    /\ UNCHANGED <<db, req, loc, resp, conn, nreq, before, last>>

CancelUpdateBusy(c) ==
    /\ pc[c] = "cancel_update"
    /\ ~CanWrite(c)
    /\ Finish(c, Response(500, "database is locked"), TRUE)
    /\ UNCHANGED <<db, wdb, lock, req, loc, nreq, before, last>>

CancelCommit(c) ==
    /\ pc[c] = "cancel_commit"
    /\ Commit(c)
    /\ Finish(c, Response(200, "Appointment cancelled successfully"), TRUE)
    /\ UNCHANGED <<req, loc, nreq, before, last>>

----------------------------------------------------------------------------
(* GET /booked-appointments *)

GetBookedAppointments(c) ==
    /\ pc[c] = "booked_select"
    /\ Finish(c, [status |-> 200, detail |-> "",
                  body |-> SelectBooked(View(c), req[c].date)], TRUE)
    /\ UNCHANGED <<db, wdb, lock, req, loc, nreq, before, last>>

----------------------------------------------------------------------------
(* Specifications *)

(* Spec: the five endpoints served by MaxWorkers worker processes on one
   database file; the statements of different calls interleave. *)

(* `before` and `last` are history variables kept for the calls made one
   after another (SpecSeq): the table when the latest call started, and the
   latest completed call with its status and the table it started on. *)
Arrive(c) ==
    /\ \E r \in HttpReqs(OneDate) : Start(c, r, MaxReq)
    /\ UNCHANGED <<before, last>>

Reply(c) == Respond(c) /\ UNCHANGED <<before, last>>

ArriveSeq ==
    /\ \E r \in HttpReqs(ValidDates) : Start(1, r, MaxSeqReq)
    /\ before' = db
    /\ UNCHANGED last

ArriveGen ==
    /\ \E r \in {q \in DirectReqs : q.start_hour < q.end_hour} : Start(1, r, MaxGenReq)
    /\ before' = db
    /\ UNCHANGED last

ReplySeq ==
    /\ Respond(1)
    /\ last' = [req |-> req[1], status |-> resp[1].status, before |-> before]
    /\ UNCHANGED before

Next ==
    \E c \in Workers :
        \/ Arrive(c)
        \/ CreateTimeslots(c)
        \/ GenSelect(c)
        \/ GenInsert(c)
        \/ GenInsertBusy(c)
        \/ GenCommit(c)
        \/ GetAvailableTimeslots(c)
        \/ BookSelect(c)
        \/ BookUpdate(c)
        \/ BookUpdateBusy(c)
        \/ BookCommit(c)
        \/ CancelSelect(c)
        \/ CancelUpdate(c)
        \/ CancelUpdateBusy(c)
        \/ CancelCommit(c)
        \/ GetBookedAppointments(c)
        \/ Reply(c)

Spec == Init /\ [][Next]_vars

(* SpecSeq: one worker (uvicorn.run(app) as in __main__): the handlers are
   coroutines without an await, so each call runs to its end before the
   next one starts. *)
NextSeq ==
    \/ ArriveSeq
    \/ CreateTimeslots(1)
    \/ GenSelect(1)
    \/ GenInsert(1)
    \/ GenCommit(1)
    \/ GetAvailableTimeslots(1)
    \/ BookSelect(1)
    \/ BookUpdate(1)
    \/ BookCommit(1)
    \/ CancelSelect(1)
    \/ CancelUpdate(1)
    \/ CancelCommit(1)
    \/ GetBookedAppointments(1)
    \/ ReplySeq

SpecSeq == Init /\ [][NextSeq]_vars

(* SpecGen: generate_timeslots called directly, one call after another, with
   its parameters drawn from StartHours, EndHours and Durations. *)
NextGen ==
    \/ ArriveGen
    \/ CreateTimeslots(1)
    \/ GenSelect(1)
    \/ GenInsert(1)
    \/ GenCommit(1)
    \/ ReplySeq

SpecGen == Init /\ [][NextGen]_vars

----------------------------------------------------------------------------
(* Vocabulary of the properties *)

Rows(t) == { t[i] : i \in 1..Len(t) }

(* Row id of table t is booked and holds exactly customer k's data *)
HoldsCustomer(t, id, k) ==
    \E r \in Rows(t) :
        /\ r.id = id
        /\ r.is_booked = 1
        /\ r.customer_name = Some(k.name)
        /\ r.customer_email = Some(k.email)
        /\ r.customer_phone = Some(k.phone)

(* Row id of table t is free and holds no customer data *)
IsCleared(t, id) ==
    \E r \in Rows(t) :
        /\ r.id = id
        /\ r.is_booked = 0
        /\ r.customer_name = NULL
        /\ r.customer_email = NULL
        /\ r.customer_phone = NULL

(* Worker c's handler of an `op` request has ended *)
Done(c, op) == pc[c] = "done" /\ req[c].op = op

(* The call before the one worker 1 has just ended was a successful `op` *)
After(op, status) == last.req.op = op /\ last.status = status

IsClientError(status) == status \in 400..499

----------------------------------------------------------------------------
(* C1: of two book calls (by two customers) on the same free slot whose
   SELECT, UPDATE and commit interleave on separate connections, exactly one
   succeeds, the other fails, and the committed row holds the customer data
   of the successful call (it is not overwritten by the other call). *)
C1_OneBookingWins ==
    \A c, d \in Workers :
        ( /\ c # d
          /\ Done(c, "book") /\ Done(d, "book")
          /\ req[c].slot_id = req[d].slot_id
          /\ req[c].cust # req[d].cust
          /\ loc[c].slot )
        => \E w \in {c, d} :
              /\ resp[w].status = 201
              /\ \A o \in {c, d} \ {w} : resp[o].status # 201
              /\ HoldsCustomer(db, req[w].slot_id, req[w].cust)

(* C2: book on a slot that does not exist or is already booked fails with
   the client-error outcome 400 and the message "Slot is already booked or
   does not exist", not with the server-error outcome 500. *)
C2_BookConflictIs400 ==
    (Done(1, "book") /\ ~loc[1].slot)
        => /\ resp[1].status = 400
           /\ resp[1].detail = "Slot is already booked or does not exist"

(* C3: cancel of a slot (a slot id that is given, i.e. not 0) that is not
   booked or does not exist fails with the client-error outcome 400 and the
   message "No booked appointment found for this slot", and leaves every row
   of the table unchanged. *)
C3_CancelConflictIs400 ==
    (Done(1, "cancel") /\ req[1].slot_id # 0 /\ ~loc[1].slot)
        => /\ resp[1].status = 400
           /\ resp[1].detail = "No booked appointment found for this slot"
           /\ db = before

(* C4: in every committed state, under any interleaving of generate, book
   and cancel calls, a booked slot has its three customer fields present and
   a free slot has all three absent (NULL). *)
C4_CustomerFieldsIffBooked ==
    \A r \in Rows(db) :
        /\ r.is_booked \in {0, 1}
        /\ r.is_booked = 1 =>
              r.customer_name # NULL /\ r.customer_email # NULL
                  /\ r.customer_phone # NULL
        /\ r.is_booked = 0 =>
              r.customer_name = NULL /\ r.customer_email = NULL
                  /\ r.customer_phone = NULL

(* C4's case: a booking made by a call of this run is committed while
   another call is inside its write transaction. *)
C4_Witness ==
    /\ \E r \in Rows(db) : r.is_booked = 1 /\ r.customer_name = Some("Bob")
    /\ lock # 0
    /\ wdb # db

(* C5: right after a successful book of slot s with customer data (n, e, p),
   the available-timeslots listing (of any date) does not contain s, and the
   booked-appointments listing, of s's date and without a date, contains s
   with customer_name = n, customer_email = e, customer_phone = p. *)
C5_BookedSlotListed ==
    (pc[1] = "done" /\ After("book", 201) /\ resp[1].status = 200)
        => LET id == last.req.slot_id IN
           /\ req[1].op = "available" =>
                 \A r \in Rows(resp[1].body) : r.id # id
           /\ ( /\ req[1].op = "booked"
                /\ \E r \in Rows(db) : r.id = id /\ req[1].date \in {NoDate, r.date} )
              => HoldsCustomer(resp[1].body, id, last.req.cust)

(* C5's case: slot 1 was free, Bob booked it, booked-appointments of its
   date has been listed. *)
C5_Witness ==
    /\ Done(1, "booked")
    /\ After("book", 201)
    /\ last.req.cust.name = "Bob"
    /\ req[1].date = FirstDate
    /\ Len(resp[1].body) > 0

(* C6: after a successful cancel of booked slot s, s has is_booked = 0 and
   no customer data; the next available-timeslots listing of s's date
   contains s and the next booked-appointments listing does not. *)
C6_CancelledSlotFree ==
    /\ (Done(1, "cancel") /\ resp[1].status = 200) => IsCleared(db, req[1].slot_id)
    /\ (pc[1] = "done" /\ After("cancel", 200) /\ resp[1].status = 200)
          => LET id == last.req.slot_id IN
             /\ ( /\ req[1].op = "available"
                  /\ \E r \in Rows(db) : r.id = id /\ req[1].date = r.date )
                => IsCleared(resp[1].body, id)
             /\ req[1].op = "booked" =>
                   \A r \in Rows(resp[1].body) : r.id # id

(* C6's case: a booked slot was cancelled and the available slots of its
   date have been listed. *)
C6_Witness ==
    /\ Done(1, "available")
    /\ After("cancel", 200)
    /\ req[1].date = FirstDate
    /\ \E r \in Rows(resp[1].body) : r.id = last.req.slot_id

(* C7: calling generate twice in succession for the same valid date with
   the same parameters leaves the table as the first call left it: the
   second call inserts no row. *)
C7_GenerateIdempotent ==
    (pc[1] = "done" /\ req[1].op = "generate_timeslots" /\ last.req = req[1])
        => db = before

(* C7's case: the second of two equal calls has ended, for a date whose
   slots the first call created. *)
C7_Witness ==
    /\ pc[1] = "done"
    /\ req[1].op = "generate_timeslots"
    /\ last.req = req[1]
    /\ req[1].date # FirstDate
    /\ \E r \in Rows(db) : r.date = req[1].date

(* C8: no two rows share the same (date, start_time), also when generate
   calls interleave their existence checks and inserts on separate
   connections. *)
C8_UniqueDateStart ==
    \A i, j \in 1..Len(db) :
        (db[i].date = db[j].date /\ db[i].start_time = db[j].start_time) => i = j

(* C9: every row created by generate(date, startHour, endHour, duration)
   with startHour < endHour and duration > 0 has start_time < end_time as
   stored HH:MM values, including slots whose end passes midnight. *)
C9_StartBeforeEnd ==
    \A r \in Rows(db) : TimeLess(r.start_time, r.end_time)

(* C10: generate-timeslots with a date that is no valid calendar date fails
   with the client-error outcome (a ValidationError), not with the
   server-error outcome, and persists no row. *)
C10_BadDateIsClientError ==
    (Done(1, "generate") /\ req[1].date # NoDate /\ ~StrptimeOk(req[1].date))
        => IsClientError(resp[1].status) /\ db = before

----------------------------------------------------------------------------
(* The call generate_timeslots(date, sh, eh, d) worker 1 has just ended on a
   table that was empty when it started *)
GeneratedOnEmpty ==
    /\ pc[1] = "done"
    /\ req[1].op = "generate_timeslots"
    /\ resp[1].detail = "returned"
    /\ before = <<>>

(* C11: on an empty table, generate(date, sh, eh, d) creates the rows
   k = 0 .. n-1 with start_time sh:00 + k*d and end_time sh:00 + (k+1)*d (as
   HH:MM), n being ceil((eh-sh)*60/d).  When (eh-sh)*60 is a multiple of d,
   n = (eh-sh)*60/d and the last slot ends exactly at eh:00; otherwise only
   the last slot ends after eh:00.  With the defaults (9, 17, 60) the rows
   are the 8 slots 09:00-10:00 .. 16:00-17:00. *)
C11_GridOnEmptyTable ==
    GeneratedOnEmpty =>
        LET r == req[1]
            span == (r.end_hour - r.start_hour) * 60
            d == r.slot_duration
            n == Len(db)
            startAt(k) == r.start_hour * 60 + k * d
        IN  /\ (n - 1) * d < span /\ span <= n * d
            /\ \A k \in 0..(n - 1) :
                  db[k + 1] = NewRow(k + 1, r.date, Strftime(startAt(k)),
                                     Strftime(startAt(k + 1)))
            /\ span % d = 0 =>
                  /\ n * d = span
                  /\ db[n].end_time = <<r.end_hour, 0>>
            /\ span % d # 0 =>
                  /\ startAt(n) > r.end_hour * 60
                  /\ \A k \in 0..(n - 2) : startAt(k + 1) <= r.end_hour * 60
            /\ (r.start_hour = 9 /\ r.end_hour = 17 /\ d = 60) =>
                  /\ n = 8
                  /\ \A k \in 0..7 :
                        /\ db[k + 1].start_time = <<9 + k, 0>>
                        /\ db[k + 1].end_time = <<10 + k, 0>>

(* C11's case: a grid whose span is no multiple of the duration has been
   generated on the empty table. *)
C11_Witness ==
    /\ GeneratedOnEmpty
    /\ ((req[1].end_hour - req[1].start_hour) * 60) % req[1].slot_duration # 0
    /\ Len(db) >= 2

(* C12: generate leaves every row that existed when it started unchanged in
   all fields (id, date, times, is_booked, customer fields), booked rows of
   the regenerated date included; it only appends rows. *)
C12_GenerateKeepsRows ==
    (pc[1] = "done" /\ req[1].op = "generate_timeslots")
        => /\ Len(db) >= Len(before)
           /\ \A i \in 1..Len(before) : db[i] = before[i]

(* C12's case: generate has added rows for a date that already held a
   booked slot. *)
C12_Witness ==
    /\ pc[1] = "done"
    /\ req[1].op = "generate_timeslots"
    /\ \E r \in Rows(before) : r.date = req[1].date /\ r.is_booked = 1
    /\ Len(db) > Len(before)

(* C13: cancel's check and its UPDATE are one atomic unit, so of two cancel
   calls on the same booked slot that interleave (both checks find the slot
   booked) at most one succeeds. *)
C13_OneCancelWins ==
    \A c, d \in Workers :
        ( /\ c # d
          /\ Done(c, "cancel") /\ Done(d, "cancel")
          /\ req[c].slot_id = req[d].slot_id
          /\ loc[c].slot /\ loc[d].slot )
        => ~(resp[c].status = 200 /\ resp[d].status = 200)

(* C14: every operation that has acquired a storage connection has released
   it when it ends, on every exit path (success, business failure,
   unexpected error such as a date that does not parse). *)
C14_ConnectionReleased ==
    \A c \in Workers : pc[c] = "done" => ~conn[c]

(* One step of the service, as C15 describes it *)
C15_Step ==
    /\ Len(db') >= Len(db)
    /\ \A i \in 1..Len(db) :
          /\ db'[i].id = db[i].id
          /\ db'[i].date = db[i].date
          /\ db'[i].start_time = db[i].start_time
          /\ db'[i].end_time = db[i].end_time
    /\ Len(db') > Len(db) =>
          \E c \in Workers : req[c].op = "generate" /\ pc[c] = "gen_commit"
    /\ \A c \in Workers :
          (req[c].op \in {"book", "cancel"} /\ pc'[c] # pc[c])
              => /\ Len(db') = Len(db)
                 /\ \A i \in 1..Len(db) :
                       db[i].id # req[c].slot_id => db'[i] = db[i]

(* C15: rows are only added, and only by generate; book and cancel,
   successful or failed (nonexistent slot ids included), never insert or
   delete a row, never change the id, date, start_time or end_time of a row,
   and change no field of a row other than the addressed one; a slot can be
   booked again after it was cancelled. *)
C15_RowsOnlyGrow == [][C15_Step]_vars

(* C15's case: a booked slot was cancelled and has been booked again
   (booked -> free -> booked). *)
C15_Witness ==
    /\ Done(1, "book")
    /\ resp[1].status = 201
    /\ After("cancel", 200)
    /\ last.req.slot_id = req[1].slot_id
    /\ Len(db) > 1

(* C16: the slots stored for one date are pairwise non-overlapping as
   intervals [start_time, end_time), after any sequence of generate calls
   for that date with valid parameters, successive calls with different
   durations or start hours included. *)
C16_NoOverlap ==
    \A i, j \in 1..Len(db) :
        (i # j /\ db[i].date = db[j].date)
            => ~( /\ TimeLess(db[i].start_time, db[j].end_time)
                  /\ TimeLess(db[j].start_time, db[i].end_time) )

(* C17: a book call on a slot that is already booked, made after the call
   that booked it has ended, fails and leaves the table unchanged: the slot
   stays booked with the first customer's name, email and phone, and no
   other row changes. *)
C17_FailedBookKeepsRow ==
    ( /\ Done(1, "book")
      /\ \E r \in Rows(before) : r.id = req[1].slot_id /\ r.is_booked = 1 )
        => /\ resp[1].status # 201
           /\ db = before

(* C17's case: Bob booked the slot in one call, Alice's later call on the
   same slot has failed. *)
C17_Witness ==
    /\ Done(1, "book")
    /\ req[1].cust.name = "Alice"
    /\ After("book", 201)
    /\ last.req.slot_id = req[1].slot_id
    /\ last.req.cust.name = "Bob"
    /\ HoldsCustomer(db, req[1].slot_id, last.req.cust)

(* C18: for every date D the listings listAvailable(D) and listBooked(D)
   partition the slots of D (each slot of D is in exactly one of them, and
   they hold nothing else), and listBooked() without a date is the union of
   listBooked(D) over all dates. *)
C18_ListingsPartition ==
    /\ \A D \in ValidDates \cup BadDates :
          LET avail == SelectAvailable(db, D)
              booked == SelectBooked(db, D)
              ofDate == { r \in Rows(db) : r.date = D }
          IN  /\ Rows(avail) \cup Rows(booked) = ofDate
              /\ Rows(avail) \cap Rows(booked) = {}
              /\ Len(avail) + Len(booked)
                    = Cardinality({ i \in 1..Len(db) : db[i].date = D })
    /\ Rows(SelectBooked(db, NoDate))
          = UNION { Rows(SelectBooked(db, r.date)) : r \in Rows(db) }

(* C18's case: the table holds slots of two dates, a booked one among them,
   booked by a call of this run. *)
C18_Witness ==
    /\ \E r, q \in Rows(db) : r.date # q.date
    /\ \E r \in Rows(db) : r.is_booked = 1 /\ r.customer_name = Some("Bob")
    /\ \E r \in Rows(db) : r.is_booked = 0

(* C19: book followed by cancel of the same slot is a round trip, the whole
   table being as it was before the book; and a book of that slot made after
   the cancel succeeds and stores the new customer's data only. *)
C19_BookCancelRoundTrip ==
    /\ ( /\ Done(1, "cancel") /\ resp[1].status = 200
         /\ After("book", 201)
         /\ last.req.slot_id = req[1].slot_id )
       => db = last.before
    /\ ( /\ Done(1, "book")
         /\ After("cancel", 200)
         /\ last.req.slot_id = req[1].slot_id )
       => /\ resp[1].status = 201
          /\ HoldsCustomer(db, req[1].slot_id, req[1].cust)

(* C19's case: Bob booked a free slot and the booking has been cancelled. *)
C19_Witness ==
    /\ Done(1, "cancel")
    /\ resp[1].status = 200
    /\ After("book", 201)
    /\ last.req.slot_id = req[1].slot_id
    /\ last.req.cust.name = "Bob"
    /\ IsCleared(db, req[1].slot_id)

====
